---- MODULE Spec2Model ----
(***************************************************************************)
(* A model of scripts/ungraded.py: the extraction of student answers to    *)
(* ungraded problems from a course-structure document and a student-module *)
(* table.                                                                  *)
(*                                                                         *)
(* A course structure is a function from node ids to descriptors           *)
(* [category, metadata, children]; metadata is a function whose DOMAIN is  *)
(* the set of keys present.  Dictionaries whose iteration order the code   *)
(* relies on (course_structure, self.ungraded) keep that order: NodeOrder  *)
(* for the document, a sequence of entries for self.ungraded.  Paths are   *)
(* sequences of components (names hold no separator; the '.tsv' suffix of  *)
(* a file name is left out).  Documents are well formed: every child id is *)
(* a key of the document and every node has a category, a display_name and *)
(* a children list, so the traversal raises no KeyError.  The columns      *)
(* created, modified and done of the table are carried like student_id and *)
(* are left out.  A call that raises is a result with raised = TRUE.       *)
(***************************************************************************)
EXTENDS Integers, Sequences, FiniteSets, TLC

\* ------------------------------------------------------------------ bounds
\* Largest number of child entries (edges) in a course structure drawn for
\* the traversal alone.
MaxEdges == 4
\* Largest number of child entries in a course structure drawn for a run
\* that goes on to write records.
MaxRunEdges == 3
\* Largest number of rows of the student-module table.
MaxRows == 2
\* Largest number of members of a state blob.
MaxMembers == 2

VARIABLES
    pc,                \* position of the run
    structure_file,    \* the course-structure file: [exists, content]
    student_file,      \* the student-module file: [exists, content]
    course_structure,  \* self.course_structure
    student_df,        \* self.student_df
    ungraded,          \* self.ungraded
    base_dir,          \* argument of write_records
    dirs,              \* directories of the file system
    files,             \* files of the file system: path -> records
    made,              \* history: directories passed to makedirs
    log,               \* history: one event per to_csv call
    arg,               \* argument s of extract_student_answers
    ret                \* its return value

vars == <<pc, structure_file, student_file, course_structure, student_df,
          ungraded, base_dir, dirs, files, made, log, arg, ret>>

\* An attribute not yet assigned.
None == "None"

\* ------------------------------------------------ the course structure
SeqIds == {"s1", "s2"}
VertIds == {"v1", "v2"}
ProbIds == {"p1", "p2"}
NodeIds == SeqIds \cup VertIds \cup ProbIds
\* Order of the keys of the document (the order of .items()).
NodeOrder == <<"s1", "v1", "p1", "s2", "v2", "p2">>

Category(id) ==
    IF id \in SeqIds THEN "sequential"
    ELSE IF id \in VertIds THEN "vertical" ELSE "problem"

\* The values a sequential's metadata may give for 'graded'.
GradedChoices == {"absent", "True", "False"}

Metadata(g, name) ==
    IF g = "absent"
    THEN [k \in {"display_name"} |-> name]
    ELSE [k \in {"graded", "display_name"} |->
              IF k = "graded" THEN g ELSE name]

Node(id, g, name, kids) ==
    [category |-> Category(id), metadata |-> Metadata(g, name),
     children |-> kids]

\* The children a node of the hierarchy may list: content nests downwards,
\* a vertical may hold a nested vertical, a sequential may hold a problem.
NestedKids ==
    [id \in NodeIds |->
    CASE id \in SeqIds -> VertIds \cup ProbIds
      [] id = "v1" -> {"v2"} \cup ProbIds
      [] id = "v2" -> ProbIds
      [] OTHER -> {}]

\* The layered course of one section: sequential, verticals, problems.
LayeredKids ==
    [id \in NodeIds |->
    CASE id = "s1" -> VertIds
      [] id \in VertIds -> ProbIds
      [] OTHER -> {}]

ChildLists(kids, n) == UNION {[1..k -> kids] : k \in 0..n}

MkStructure(c, g1, g2, vn, pn) ==
    [id \in NodeIds |->
        CASE id = "s1" -> Node(id, g1, "S1", c[1])
          [] id = "s2" -> Node(id, g2, "S2", c[2])
          [] id = "v1" -> Node(id, "absent", "a", c[3])
          [] id = "v2" -> Node(id, "absent", vn, c[4])
          [] id = "p1" -> Node(id, "absent", "x", <<>>)
          [] id = "p2" -> Node(id, "absent", pn, <<>>)]

\* The course-structure file holds a document with at most n child entries,
\* each node listing children among kids[id].
StructureOnDisk(n, kids, graded, pnames) ==
    \E c1 \in ChildLists(kids["s1"], n) :
    \E c2 \in ChildLists(kids["s2"], n - Len(c1)) :
    \E c3 \in ChildLists(kids["v1"], n - Len(c1) - Len(c2)) :
    \E c4 \in ChildLists(kids["v2"], n - Len(c1) - Len(c2) - Len(c3)) :
    \E g1 \in graded, g2 \in graded, vn \in {"a", "b"}, pn \in pnames :
        structure_file =
            [exists |-> TRUE,
             content |-> MkStructure(<<c1, c2, c3, c4>>, g1, g2, vn, pn)]

\* --------------------------------------------------- extract_ungraded
\* Mutant: self.ungraded[name] = [pair], the group is replaced, not extended.
SetDefaultAssign(u, name, pair) ==
    IF \E i \in 1..Len(u) : u[i].section = name
    THEN [i \in 1..Len(u) |->
             IF u[i].section = name
             THEN [u[i] EXCEPT !.problems = <<pair>>]
             ELSE u[i]]
    ELSE Append(u, [section |-> name, problems |-> <<pair>>])

\* self.ungraded.setdefault(name, []).append(pair)
SetDefaultAppend(u, name, pair) ==
    IF \E i \in 1..Len(u) : u[i].section = name
    THEN [i \in 1..Len(u) |->
             IF u[i].section = name
             THEN [u[i] EXCEPT !.problems = Append(@, pair)]
             ELSE u[i]]
    ELSE Append(u, [section |-> name, problems |-> <<pair>>])

RECURSIVE AddFromVertFrom(_, _, _, _)
AddFromVertFrom(cs, u, vert, j) ==
    IF j > Len(vert.children) THEN u
    ELSE LET child_id == vert.children[j]
             child == cs[child_id]
             u2 == IF child.category = "problem"
                   THEN SetDefaultAppend(u, vert.metadata["display_name"],
                            <<child.metadata["display_name"], child_id>>)
                   ELSE u
         IN AddFromVertFrom(cs, u2, vert, j + 1)

\* Mutant: every problem child is appended twice.
add_from_vert_twice(cs, u, vert) ==
    AddFromVertFrom(cs, AddFromVertFrom(cs, u, vert, 1), vert, 1)

add_from_vert(cs, u, vert) == AddFromVertFrom(cs, u, vert, 1)

RECURSIVE VisitVerts(_, _, _, _)
VisitVerts(cs, u, vert_ids, i) ==
    IF i > Len(vert_ids) THEN u
    ELSE VisitVerts(cs, add_from_vert(cs, u, cs[vert_ids[i]]), vert_ids, i + 1)

\* Mutant: the value of 'graded' is tested, not its presence.
IsUngradedByValue(desc) ==
    \/ "graded" \notin DOMAIN desc.metadata
    \/ desc.metadata["graded"] = "False"

\* The test of line 117.
IsUngraded(desc) == "graded" \notin DOMAIN desc.metadata

RECURSIVE ExtractFrom(_, _, _)
ExtractFrom(cs, u, k) ==
    IF k > Len(NodeOrder) THEN u
    ELSE LET desc == cs[NodeOrder[k]]
             u2 == IF desc.category = "sequential" /\ IsUngraded(desc)
                   THEN VisitVerts(cs, u, desc.children, 1)
                   ELSE u
         IN ExtractFrom(cs, u2, k + 1)

extract_ungraded(cs) == ExtractFrom(cs, <<>>, 1)

\* UngradedProblems.extract_ungraded, the last step of __init__.
ExtractUngraded ==
    /\ pc = "extract"
    /\ ungraded' = extract_ungraded(course_structure)
    /\ pc' = "write"
    /\ UNCHANGED <<structure_file, student_file, course_structure, student_df,
                   base_dir, dirs, files, made, log, arg, ret>>

\* The traversal on its own: both inputs parsed, the table empty.
InitExtract ==
    /\ pc = "extract"
    /\ StructureOnDisk(MaxEdges, NestedKids, GradedChoices, {"y"})
    /\ course_structure = structure_file.content
    /\ student_file = [exists |-> TRUE, content |-> <<>>]
    /\ student_df = <<>>
    /\ ungraded = None
    /\ base_dir = "ungraded_problems"
    /\ dirs = {}
    /\ files = <<>>
    /\ made = {}
    /\ log = <<>>
    /\ arg = None
    /\ ret = None

NextExtract == ExtractUngraded

SpecExtract == InitExtract /\ [][NextExtract]_vars

\* ------------------------------------------------------ reading the inputs
\* gpg --output - fname: the decrypted content on stdout, and nothing when
\* gpg cannot open the file (Popen does not look at the exit status).
Gpg(file) == [empty |-> ~file.exists, data |-> file.content]

\* json.load raises on an empty stream.
JsonLoad(stream) ==
    IF stream.empty THEN [raised |-> TRUE, value |-> None]
    ELSE [raised |-> FALSE, value |-> stream.data]

read_encrypted_json(file) == JsonLoad(Gpg(file))

\* The cells pandas reads as NaN: na_values='na' besides the defaults.
NaStrings == {"na", ""}

\* A state cell of the table file: the text "na", or a blob.
NaText == [kind |-> "na", members |-> <<>>]

ParseRow(raw) ==
    [module_id |-> [na |-> raw.module_id \in NaStrings, text |-> raw.module_id],
     student_id |-> [na |-> raw.student_id \in NaStrings, text |-> raw.student_id],
     state |-> [na |-> raw.state.kind = "na", text |-> raw.state]]

\* Mutant: an empty stream parses to an empty table.
ReadCsvLenient(stream) ==
    IF stream.empty THEN [raised |-> FALSE, value |-> <<>>]
    ELSE [raised |-> FALSE,
          value |-> [i \in 1..Len(stream.data) |-> ParseRow(stream.data[i])]]

\* pd.read_csv with usecols and dtype=str: raises on an empty stream (no
\* header line), keeps the named columns, reads 'na' cells as NaN.
ReadCsv(stream) ==
    IF stream.empty THEN [raised |-> TRUE, value |-> None]
    ELSE [raised |-> FALSE,
          value |-> [i \in 1..Len(stream.data) |-> ParseRow(stream.data[i])]]

read_encrypted_tsv(file) == ReadCsv(Gpg(file))

\* ---------------------------------------------- extract_student_answers
\* A blob is the text of a JSON value: an object with its members in
\* order, an array, or text that is no JSON.  A member's value is a string
\* of one character, written as one of Tokens:
\*   a        a plain ASCII letter
\*   bs_u     backslash u00e9            bs_bs_u      backslash backslash u00e9
\*   bs_quote backslash quote            bs_bs_quote  backslash backslash quote
\*   e_acute  the character U+00E9 itself
Tokens == {"a", "bs_u", "bs_bs_u", "e_acute", "bs_quote", "bs_bs_quote"}
Keys == {"student_answers", "seed", "done"}

\* s.encode().decode('unicode_escape'), one character of the text: an
\* escape is resolved, a non-ASCII character is read back as Latin-1.
UnicodeEscape(tok) ==
    CASE tok = "bs_u" -> "e_acute"
      [] tok = "bs_bs_u" -> "bs_u"
      [] tok = "e_acute" -> "A_tilde_copyright"
      [] tok = "bs_quote" -> "quote"
      [] tok = "bs_bs_quote" -> "bs_quote"
      [] OTHER -> tok

Decode(blob) ==
    [blob EXCEPT !.members =
        [i \in 1..Len(blob.members) |->
            [blob.members[i] EXCEPT !.value = UnicodeEscape(@)]]]

\* json.loads on the content of a string: the escapes JSON knows.
JsonChar(tok) ==
    CASE tok = "bs_u" -> "e_acute"
      [] tok = "bs_quote" -> "quote"
      [] OTHER -> tok

JsonString(tok) == [type |-> "string", v |-> JsonChar(tok)]
EmptyMapping == [type |-> "object", v |-> "{}"]

RECURSIVE BuildDict(_, _, _)
BuildDict(members, i, d) ==
    IF i > Len(members) THEN d
    ELSE LET m == members[i]
         IN BuildDict(members, i + 1,
                [k \in DOMAIN d \cup {m.key} |->
                    IF k = m.key THEN JsonString(m.value) ELSE d[k]])

\* json.loads: a bare quote inside a string ends it early and the text is
\* no JSON; a repeated key keeps its last value.
JsonLoads(text) ==
    IF \/ text.kind = "invalid"
       \/ \E i \in 1..Len(text.members) : text.members[i].value = "quote"
    THEN [raised |-> TRUE, kind |-> "none", value |-> <<>>]
    ELSE IF text.kind = "array"
    THEN [raised |-> FALSE, kind |-> "list", value |-> <<>>]
    ELSE [raised |-> FALSE, kind |-> "dict",
          value |-> BuildDict(text.members, 1, <<>>)]

\* Mutant: the default of the lookup is the first value of the state.
DictGetFirst(d, key, default, members) ==
    IF key \in DOMAIN d THEN d[key]
    ELSE IF members # <<>> THEN d[members[1].key] ELSE default

\* data.get(key, default); members is the text data was parsed from.
DictGet(d, key, default, members) ==
    IF key \in DOMAIN d THEN d[key] ELSE default

\* s is a cell of the state column: NaN (a float, without .encode) or text.
extract_student_answers(s) ==
    IF s.na THEN [raised |-> TRUE, value |-> EmptyMapping]
    ELSE LET data == JsonLoads(Decode(s.text))
         IN IF data.raised \/ data.kind # "dict"
            THEN [raised |-> TRUE, value |-> EmptyMapping]
            ELSE [raised |-> FALSE,
                  value |-> DictGet(data.value, "student_answers",
                                    EmptyMapping, s.text.members)]

\* ------------------------------------------------------- write_records
\* path.join(base_dir, section)
PathJoin(a, b) == <<a, b>>
\* 'ungraded_problems/{}/{}.tsv'.format(section, name)
OutFname(section, name) == <<"ungraded_problems", section, name>>
DirName(path) == SubSeq(path, 1, Len(path) - 1)
\* makedirs(path, exist_ok=True)
Makedirs(d, path) == d \cup { SubSeq(path, 1, k) : k \in 1..Len(path) }

RECURSIVE SelectFrom(_, _, _, _)
SelectFrom(df, column, pid, i) ==
    IF i > Len(df) THEN <<>>
    ELSE LET rest == SelectFrom(df, column, pid, i + 1)
         IN IF ~df[i][column].na /\ df[i][column].text = pid
            THEN <<i>> \o rest ELSE rest

\* Mutant: the mask is taken on the student_id column.
SelectRowsByStudent(df, pid) == SelectFrom(df, "student_id", pid, 1)

\* self.student_df.loc[self.student_df.module_id == pid]: the index labels
\* of the selected rows, in order (NaN equals nothing).
SelectRows(df, pid) == SelectFrom(df, "module_id", pid, 1)

RECURSIVE WriteProblems(_, _, _, _, _)
WriteProblems(df, section, problems, j, st) ==
    IF st.failed \/ j > Len(problems) THEN st
    ELSE LET name == problems[j][1]
             pid == problems[j][2]
             rows == SelectRows(df, pid)
             answers == [k \in 1..Len(rows) |->
                            extract_student_answers(df[rows[k]].state)]
             raw_records ==
                 [k \in 1..Len(rows) |->
                     [index |-> rows[k],
                      module_id |-> df[rows[k]].module_id,
                      student_id |-> df[rows[k]].student_id,
                      state |-> df[rows[k]].state,
                      student_answers |-> answers[k].value]]
             outfname == OutFname(section, name)
         IN IF \E k \in 1..Len(rows) : answers[k].raised
            THEN [st EXCEPT !.failed = TRUE]
            ELSE IF DirName(outfname) \notin st.dirs
            THEN [st EXCEPT !.failed = TRUE]
            ELSE WriteProblems(df, section, problems, j + 1,
                    [st EXCEPT
                        !.files = [q \in DOMAIN st.files \cup {outfname} |->
                                      IF q = outfname THEN raw_records
                                      ELSE st.files[q]],
                        !.log = Append(@, [path |-> outfname, pid |-> pid,
                                           section |-> section, name |-> name,
                                           records |-> raw_records])])

RECURSIVE WriteSections(_, _, _, _, _)
WriteSections(df, base, u, g, st) ==
    IF st.failed \/ g > Len(u) THEN st
    ELSE LET dir == PathJoin(base, u[g].section)
             st1 == [st EXCEPT !.dirs = Makedirs(@, dir),
                               !.made = @ \cup {dir}]
         IN WriteSections(df, base, u, g + 1,
                WriteProblems(df, u[g].section, u[g].problems, 1, st1))

write_records(df, u, base, d, f) ==
    WriteSections(df, base, u, 1,
        [dirs |-> d, files |-> f, made |-> {}, log |-> <<>>, failed |-> FALSE])

\* ------------------------------------------------------------ the run
\* __init__, line 67.
ReadEncryptedJson ==
    /\ pc = "read_json"
    /\ LET r == read_encrypted_json(structure_file)
       IN /\ course_structure' = r.value
          /\ pc' = IF r.raised THEN "init_failed" ELSE "read_tsv"
    /\ UNCHANGED <<structure_file, student_file, student_df, ungraded,
                   base_dir, dirs, files, made, log, arg, ret>>

\* __init__, line 73.
ReadEncryptedTsv ==
    /\ pc = "read_tsv"
    /\ LET r == read_encrypted_tsv(student_file)
       IN /\ student_df' = r.value
          /\ pc' = IF r.raised THEN "init_failed" ELSE "extract"
    /\ UNCHANGED <<structure_file, student_file, course_structure, ungraded,
                   base_dir, dirs, files, made, log, arg, ret>>

WriteRecordsAt(stages) ==
    /\ pc \in stages
    /\ LET st == write_records(student_df, ungraded, base_dir, dirs, files)
       IN /\ dirs' = st.dirs
          /\ files' = st.files
          /\ made' = made \cup st.made
          /\ log' = log \o st.log
          /\ pc' = IF st.failed THEN "write_failed" ELSE "done"
    /\ UNCHANGED <<structure_file, student_file, course_structure, student_df,
                   ungraded, base_dir, arg, ret>>

\* Mutant: write_records runs again once it is done.
WriteRecordsAgain == WriteRecordsAt({"write", "done"})

\* ungraded.write_records(base_dir), line 161.
WriteRecords == WriteRecordsAt({"write"})

\* The state cells a table row may hold.
BlobWith ==
    [kind |-> "object",
     members |-> <<[key |-> "seed", value |-> "a"],
                   [key |-> "student_answers", value |-> "bs_bs_u"]>>]
StateCells == {NaText, BlobWith}

RawRows ==
    [module_id : ProbIds \cup {"na"}, student_id : {"u1"},
     state : StateCells, grade : {"0"}]

\* The student-module file holds a table of at most n rows.
StudentOnDisk(n) ==
    \E k \in 0..n : \E rows \in [1..k -> RawRows] :
        student_file = [exists |-> TRUE, content |-> rows]

NoFile == [exists |-> FALSE, content |-> <<>>]

\* The state at the start of __main__: the two files may be missing.
Init ==
    /\ pc = "read_json"
    /\ \/ structure_file = NoFile
       \/ StructureOnDisk(MaxRunEdges, LayeredKids, {"absent"}, {"x", "y"})
    /\ \/ student_file = NoFile
       \/ StudentOnDisk(MaxRows)
    /\ course_structure = None
    /\ student_df = None
    /\ ungraded = None
    /\ base_dir = "ungraded_problems"
    /\ dirs = {}
    /\ files = <<>>
    /\ made = {}
    /\ log = <<>>
    /\ arg = None
    /\ ret = None

Next ==
    \/ ReadEncryptedJson
    \/ ReadEncryptedTsv
    \/ ExtractUngraded
    \/ WriteRecords

Spec == Init /\ [][Next]_vars

\* write_records on its own, for either base_dir, on a file system that an
\* earlier run may have left its directories in.
EarlierRuns ==
    { {}, Makedirs(Makedirs({}, <<"ungraded_problems", "a">>),
                   <<"ungraded_problems", "b">>) }

InitWrite ==
    /\ pc = "write"
    /\ StructureOnDisk(MaxRunEdges, LayeredKids, {"absent"}, {"x", "y"})
    /\ StudentOnDisk(MaxRows)
    /\ course_structure = read_encrypted_json(structure_file).value
    /\ student_df = read_encrypted_tsv(student_file).value
    /\ ungraded = extract_ungraded(course_structure)
    /\ \/ base_dir = "ungraded_problems" /\ dirs = {}
       \/ base_dir = "out" /\ dirs \in EarlierRuns
    /\ files = <<>>
    /\ made = {}
    /\ log = <<>>
    /\ arg = None
    /\ ret = None

NextWrite == WriteRecords

SpecWrite == InitWrite /\ [][NextWrite]_vars

\* extract_student_answers on its own, for every state cell of the bounds.
ExtractStudentAnswers ==
    /\ pc = "call"
    /\ ret' = extract_student_answers(arg)
    /\ pc' = IF ret'.raised THEN "raised" ELSE "returned"
    /\ UNCHANGED <<structure_file, student_file, course_structure, student_df,
                   ungraded, base_dir, dirs, files, made, log, arg>>

InitAnswers ==
    /\ pc = "call"
    /\ \/ arg = [na |-> TRUE, text |-> NaText]
       \/ \E kind \in {"array", "invalid"} :
             arg = [na |-> FALSE, text |-> [kind |-> kind, members |-> <<>>]]
       \/ \E k \in 0..MaxMembers :
          \E ms \in [1..k -> [key : Keys, value : Tokens]] :
             arg = [na |-> FALSE, text |-> [kind |-> "object", members |-> ms]]
    /\ ret = None
    /\ structure_file = NoFile
    /\ student_file = NoFile
    /\ course_structure = None
    /\ student_df = None
    /\ ungraded = None
    /\ base_dir = "ungraded_problems"
    /\ dirs = {}
    /\ files = <<>>
    /\ made = {}
    /\ log = <<>>

NextAnswers == ExtractStudentAnswers

SpecAnswers == InitAnswers /\ [][NextAnswers]_vars

\* ------------------------------------------- properties of the traversal
\* extract_ungraded has returned.
Extracted == pc \in {"write", "done", "write_failed"}

\* A container lacking a 'graded' marker.
UngradedContainer(cs, id) ==
    /\ cs[id].category = "sequential"
    /\ \A k \in DOMAIN cs[id].metadata : k # "graded"

\* The paths container -> child -> problem through ungraded containers:
\* <<k, i, j>> is child j of child i of the k-th node of the document.
PathVert(cs, t) == cs[cs[NodeOrder[t[1]]].children[t[2]]]
PathProblem(cs, t) == PathVert(cs, t).children[t[3]]
Paths(cs) ==
    UNION { UNION {
        { <<k, i, j>> :
            j \in { j \in 1..Len(cs[cs[NodeOrder[k]].children[i]].children) :
                      cs[cs[cs[NodeOrder[k]].children[i]].children[j]].category
                          = "problem" } }
        : i \in 1..Len(cs[NodeOrder[k]].children) }
        : k \in { k \in 1..Len(NodeOrder) :
                    UngradedContainer(cs, NodeOrder[k]) } }

PathsNamed(cs, name) ==
    { t \in Paths(cs) : PathVert(cs, t).metadata["display_name"] = name }

Before(x, t) ==
    \/ x[1] < t[1]
    \/ x[1] = t[1] /\ x[2] < t[2]
    \/ x[1] = t[1] /\ x[2] = t[2] /\ x[3] < t[3]

Rank(t, T) == Cardinality({ x \in T : Before(x, t) }) + 1

\* Positions <<group, index>> of self.ungraded that hold problem pid.
Occurrences(u, pid) ==
    { gi \in UNION { {<<g, i>> : i \in 1..Len(u[g].problems)} : g \in 1..Len(u) } :
        u[gi[1]].problems[gi[2]][2] = pid }

Recorded(u, pid) == Occurrences(u, pid) # {}

\* Containment at any depth: the nodes below id.
RECURSIVE Below(_, _, _)
Below(cs, S, n) ==
    IF n = 0 THEN S
    ELSE LET next == S \cup UNION { { cs[m].children[i] :
                                        i \in 1..Len(cs[m].children) } : m \in S }
         IN Below(cs, next, n - 1)

Descendants(cs, id) ==
    Below(cs, { cs[id].children[i] : i \in 1..Len(cs[id].children) },
          Cardinality(NodeIds))

\* Every node is listed at most once over all the children lists.
IsTree(cs) ==
    \A n \in NodeIds :
        Cardinality(UNION { { <<m, i>> : i \in { i \in 1..Len(cs[m].children) :
                                                   cs[m].children[i] = n } }
                            : m \in NodeIds }) <= 1

\* C1: after extract_ungraded every stored (display_name, id) pair is a node
\* of category 'problem', carries that node's display_name, and is a child of
\* a child of a sequential whose metadata has no 'graded' key; a problem is
\* stored no more often than such paths lead to it, so a sequential with a
\* 'graded' key (whatever its value) contributes nothing.
C1_OnlyUngradedProblems ==
    Extracted =>
        \A g \in 1..Len(ungraded) : \A i \in 1..Len(ungraded[g].problems) :
            LET pair == ungraded[g].problems[i]
                pid == pair[2]
                through == { t \in Paths(course_structure) :
                               PathProblem(course_structure, t) = pid }
            IN /\ course_structure[pid].category = "problem"
               /\ pair[1] = course_structure[pid].metadata["display_name"]
               /\ through # {}
               /\ Cardinality(Occurrences(ungraded, pid)) <= Cardinality(through)

\* A graded sequential (one with 'graded': False included) holds problems
\* two levels down, an ungraded one does too, and only the latter's are stored.
C1_Witness ==
    /\ Extracted
    /\ ungraded # <<>>
    /\ \E s \in SeqIds :
          /\ "graded" \in DOMAIN course_structure[s].metadata
          /\ course_structure[s].metadata["graded"] = "False"
          /\ \E i \in 1..Len(course_structure[s].children) :
                LET v == course_structure[course_structure[s].children[i]]
                IN \E j \in 1..Len(v.children) :
                      /\ course_structure[v.children[j]].category = "problem"
                      /\ ~Recorded(ungraded, v.children[j])

\* C2: after extract_ungraded every problem contained, at whatever depth, in
\* a container lacking a 'graded' marker is recorded in self.ungraded.
C2_AllContainedProblemsRecorded ==
    Extracted =>
        \A s \in NodeIds : \A p \in NodeIds :
            ( /\ UngradedContainer(course_structure, s)
              /\ course_structure[p].category = "problem"
              /\ p \in Descendants(course_structure, s) )
            => Recorded(ungraded, p)

\* C7: self.ungraded[name] lists, in traversal order, the (problem
\* display_name, problem id) pairs of every visited vertical whose
\* display_name is name; there is one group per name, named after the
\* vertical and not after the sequential.
C7_GroupedByVertical ==
    Extracted =>
        /\ \A g \in 1..Len(ungraded) :
              LET T == PathsNamed(course_structure, ungraded[g].section)
              IN /\ T # {}
                 /\ Len(ungraded[g].problems) = Cardinality(T)
                 /\ \A t \in T :
                       LET pid == PathProblem(course_structure, t)
                       IN ungraded[g].problems[Rank(t, T)] =
                            <<course_structure[pid].metadata["display_name"], pid>>
        /\ \A t \in Paths(course_structure) :
              \E g \in 1..Len(ungraded) :
                  ungraded[g].section =
                      PathVert(course_structure, t).metadata["display_name"]
        /\ \A g, h \in 1..Len(ungraded) :
              ungraded[g].section = ungraded[h].section => g = h

\* Two different verticals of one display_name were visited, each with a
\* problem, and their pairs share one group.
C7_Witness ==
    /\ Extracted
    /\ \E g \in 1..Len(ungraded) :
          \E t1, t2 \in PathsNamed(course_structure, ungraded[g].section) :
              /\ course_structure[NodeOrder[t1[1]]].children[t1[2]]
                    # course_structure[NodeOrder[t2[1]]].children[t2[2]]
              /\ Len(ungraded[g].problems) >= 2

RowsOf(pid) ==
    { i \in 1..Len(student_df) :
        /\ ~student_df[i].module_id.na
        /\ student_df[i].module_id.text = pid }

\* The records are exactly the rows of pid, each once, unchanged.
HoldsRowsOf(records, pid) ==
    /\ { records[k].index : k \in 1..Len(records) } = RowsOf(pid)
    /\ Len(records) = Cardinality(RowsOf(pid))
    /\ \A k \in 1..Len(records) :
          LET row == student_df[records[k].index]
          IN /\ records[k].module_id = row.module_id
             /\ records[k].student_id = row.student_id
             /\ records[k].state = row.state

\* C3: the records write_records writes for an extracted problem pid are
\* exactly the rows of the student table whose module_id equals pid: none
\* with another module_id, none of pid left out.
C3_RecordsAreRowsOfProblem ==
    \A n \in 1..Len(log) : HoldsRowsOf(log[n].records, log[n].pid)

\* A problem was written with its rows while the table holds a row of
\* another module.
C3_Witness ==
    \E n \in 1..Len(log) :
        /\ log[n].records # <<>>
        /\ \E i \in 1..Len(student_df) : i \notin RowsOf(log[n].pid)

Unreadable == ~structure_file.exists \/ ~student_file.exists

\* C4: if either input file is missing the run fails: the read of the
\* missing file ends construction in an error, write_records is never
\* reached, and no directory or file is written.
C4_MissingFileFailsRun ==
    /\ [](Unreadable =>
            /\ pc \in {"read_json", "read_tsv", "init_failed"}
            /\ dirs = {} /\ DOMAIN files = {} /\ made = {} /\ log = <<>>)
    /\ [][(pc = "read_json" /\ ~structure_file.exists)
              => pc' = "init_failed"]_vars
    /\ [][(pc = "read_tsv" /\ ~student_file.exists)
              => pc' = "init_failed"]_vars

\* The student file alone is missing and construction has failed.
C4_Witness ==
    /\ structure_file.exists
    /\ ~student_file.exists
    /\ pc = "init_failed"

\* C5: a run is one linear pipeline: the structure is read, then the table,
\* then the tree is traversed, then records are written; the file system
\* changes only in the last step, and no step is repeated or out of order.
C5_LinearPipeline ==
    [][ \/ /\ pc = "read_json"
           /\ pc' \in {"read_tsv", "init_failed"}
           /\ UNCHANGED <<student_df, ungraded, dirs, files, made, log>>
        \/ /\ pc = "read_tsv"
           /\ pc' \in {"extract", "init_failed"}
           /\ UNCHANGED <<course_structure, ungraded, dirs, files, made, log>>
        \/ /\ pc = "extract"
           /\ pc' = "write"
           /\ UNCHANGED <<course_structure, student_df, dirs, files, made, log>>
        \/ /\ pc = "write"
           /\ pc' \in {"done", "write_failed"}
           /\ UNCHANGED <<course_structure, student_df, ungraded>> ]_vars

\* A run that went through every step and wrote records.
C5_Witness ==
    /\ pc = "done"
    /\ log # <<>>
    /\ \E n \in 1..Len(log) : log[n].records # <<>>

\* C6: after write_records completes every recorded problem has an output
\* file holding its records, and two distinct problems never share a path.
C6_OneFilePerProblem ==
    pc = "done" =>
        /\ \A g \in 1..Len(ungraded) : \A i \in 1..Len(ungraded[g].problems) :
              LET path == OutFname(ungraded[g].section,
                                   ungraded[g].problems[i][1])
              IN /\ path \in DOMAIN files
                 /\ HoldsRowsOf(files[path], ungraded[g].problems[i][2])
        /\ \A m, n \in 1..Len(log) :
              log[m].pid # log[n].pid => log[m].path # log[n].path

\* C8: extract_student_answers returns the value stored under
\* 'student_answers' in the decoded state (the last one if the key is
\* repeated) and an empty mapping when the key is absent.
C8_ReturnsStudentAnswers ==
    pc = "returned" =>
        LET ms == arg.text.members
            at == { i \in 1..Len(ms) : ms[i].key = "student_answers" }
        IN IF at = {} THEN ret.value = EmptyMapping
           ELSE LET last == CHOOSE i \in at : \A j \in at : j <= i
                IN ret.value = JsonString(UnicodeEscape(ms[last].value))

\* The state has members and none is 'student_answers'.
C8_Witness ==
    /\ pc = "returned"
    /\ arg.text.members # <<>>
    /\ \A i \in 1..Len(arg.text.members) :
          arg.text.members[i].key # "student_answers"
    /\ ret.value = EmptyMapping

\* C9: for every base_dir, each output file is written inside the section
\* directory write_records made under that base_dir.
C9_FilesUnderBaseDir ==
    \A n \in 1..Len(log) :
        /\ DirName(log[n].path) = PathJoin(base_dir, log[n].section)
        /\ DirName(log[n].path) \in made

====
